---------------------------- MODULE Spec2Model ----------------------------
(***************************************************************************)
(* text-analyzer (src/main.rs): one run of `text-analyzer analyze`.        *)
(*                                                                         *)
(* A run is main(): read_input, analyze, print_report.  The text is a      *)
(* Rust String, i.e. a sequence of UTF-8 bytes; the metrics engine works   *)
(* on the chars (Unicode scalar values) decoded from it.  The terminal is  *)
(* two flags, raw mode and the alternate screen, driven by the crossterm   *)
(* calls of init_terminal / restore_terminal.  Every fallible call         *)
(* (`...?` in the source) succeeds or fails nondeterministically.          *)
(***************************************************************************)
EXTENDS Integers, Sequences, FiniteSets, TLC

(***************************************************************************)
(* Bounds of the model.                                                    *)
(***************************************************************************)
\* longest enumerated input text, in chars (the texts of the source's tests
\* are inputs too, whatever their length)
MaxLen == 3

(***************************************************************************)
(* Characters.                                                             *)
(***************************************************************************)
TAB == 9
LF == 10
CR == 13
SP == 32
DOT == 46
LETTER_A == 97
NBSP == 160
EMOJI == 128522

\* the chars the enumerated texts are built from
Alphabet == {LETTER_A, DOT, SP, TAB, LF, CR, NBSP, EMOJI}

\* char::is_whitespace: the Unicode White_Space property
IsWhitespace(c) ==
    \/ c = 32
    \/ c \in 9..13
    \/ c \in {133, 160, 5760, 8232, 8233, 8239, 8287, 12288}
    \/ c \in 8192..8202

(***************************************************************************)
(* String <-> chars: a String holds the UTF-8 encoding of its chars.       *)
(***************************************************************************)
\* the UTF-8 bytes of one scalar value
Utf8Char(c) ==
    IF c < 128 THEN <<c>>
    ELSE IF c < 2048 THEN <<192 + (c \div 64), 128 + (c % 64)>>
    ELSE IF c < 65536 THEN
        <<224 + (c \div 4096), 128 + ((c \div 64) % 64), 128 + (c % 64)>>
    ELSE <<240 + (c \div 262144), 128 + ((c \div 4096) % 64),
           128 + ((c \div 64) % 64), 128 + (c % 64)>>

RECURSIVE Utf8(_)
\* the String (bytes) holding the chars cs
Utf8(cs) == IF cs = <<>> THEN <<>> ELSE Utf8Char(Head(cs)) \o Utf8(Tail(cs))

\* width of the encoded char whose first byte is b
Utf8Width(b) == IF b < 128 THEN 1 ELSE IF b < 224 THEN 2 ELSE IF b < 240 THEN 3 ELSE 4

\* the scalar value encoded by the bytes s[i .. i + Utf8Width(s[i]) - 1]
DecodeAt(s, i) ==
    LET w == Utf8Width(s[i]) IN
    IF w = 1 THEN s[i]
    ELSE IF w = 2 THEN (s[i] - 192) * 64 + (s[i + 1] - 128)
    ELSE IF w = 3 THEN
        (s[i] - 224) * 4096 + (s[i + 1] - 128) * 64 + (s[i + 2] - 128)
    ELSE (s[i] - 240) * 262144 + (s[i + 1] - 128) * 4096
         + (s[i + 2] - 128) * 64 + (s[i + 3] - 128)

RECURSIVE CharsFrom(_, _)
CharsFrom(s, i) ==
    IF i > Len(s) THEN <<>>
    ELSE <<DecodeAt(s, i)>> \o CharsFrom(s, i + Utf8Width(s[i]))

\* str::chars(): the scalar values of a String
Chars(s) == CharsFrom(s, 1)

(***************************************************************************)
(* Metrics engine.                                                         *)
(***************************************************************************)
RECURSIVE SplitWs(_, _, _)
\* str::split(char::is_whitespace): the pieces between whitespace chars,
\* the empty ones included
SplitWs(cs, i, cur) ==
    IF i > Len(cs) THEN <<cur>>
    ELSE IF IsWhitespace(cs[i]) THEN <<cur>> \o SplitWs(cs, i + 1, <<>>)
    ELSE SplitWs(cs, i + 1, Append(cur, cs[i]))

\* str::split_whitespace(): the non-empty pieces
split_whitespace(s) == SelectSeq(SplitWs(Chars(s), 1, <<>>), LAMBDA w : w # <<>>)

RECURSIVE SplitInclusive(_, _, _)
\* str::split_inclusive('\n'): pieces ending with their '\n'; no empty last piece
SplitInclusive(cs, i, cur) ==
    IF i > Len(cs) THEN (IF cur = <<>> THEN <<>> ELSE <<cur>>)
    ELSE IF cs[i] = LF THEN <<Append(cur, LF)>> \o SplitInclusive(cs, i + 1, <<>>)
    ELSE SplitInclusive(cs, i + 1, Append(cur, cs[i]))

\* the piece without its "\n" or "\r\n"
StripLineEnding(l) ==
    IF l # <<>> /\ l[Len(l)] = LF
    THEN LET m == SubSeq(l, 1, Len(l) - 1) IN
         IF m # <<>> /\ m[Len(m)] = CR THEN SubSeq(m, 1, Len(m) - 1) ELSE m
    ELSE l

\* str::lines()
lines(s) ==
    LET segs == SplitInclusive(Chars(s), 1, <<>>) IN
    [k \in 1..Len(segs) |-> StripLineEnding(segs[k])]

\* faulty variant: text.split(' ').count()
count_words_split_space(text) ==
    LET cs == Chars(text) IN Cardinality({i \in 1..Len(cs) : cs[i] = SP}) + 1

count_words(text) == Len(split_whitespace(text))

\* faulty variant: text.len(), the number of bytes
count_char_bytes(text) == Len(text)

count_char(text) == Len(Chars(text))

\* faulty variant: text.split('\n').count(), which counts the empty piece after a
\* final '\n'
count_lines_split(text) ==
    LET cs == Chars(text) IN Cardinality({i \in 1..Len(cs) : cs[i] = LF}) + 1

count_lines(text) == Len(lines(text))

\* analyze: Ok(Report { .. }), never Err
analyze(text) ==
    [ok |-> TRUE,
     report |-> [char_count |-> count_char(text),
                 word_count |-> count_words(text),
                 line_count |-> count_lines(text)]]

RECURSIVE Digits(_)
\* format!("{}", n) for a usize: its decimal digits
Digits(n) == IF n < 10 THEN <<n>> ELSE Append(Digits(n \div 10), n % 10)


(***************************************************************************)
(* Inputs.                                                                 *)
(***************************************************************************)
\* the texts of the source's unit tests
T_lorem_ipsum == <<108, 111, 114, 101, 109, 32, 105, 112, 115, 117, 109>>
T_lorem_punct ==
    <<108, 111, 114, 101, 109, 32, 105, 112, 115, 117, 109, 94, 35, 126>>
T_lorem_coucou ==
    <<108, 111, 114, 101, 109, 32, 105, 112, 115, 117, 10, 32,
      99, 111, 117, 99, 111, 117>>
T_lorem_spaces ==
    <<108, 111, 114, 101, 109, 32, 32, 32, 105, 112, 115, 117, 109, 32, 32, 32>>
T_abc_spaced == <<32, 97, 98, 99, 32>>
T_a_b_c == <<97, 46, 98, 46, 99>>
T_emoji == <<EMOJI>>
T_four_lines == <<49, 10, 50, 10, 50, 10, 52>>
T_one == <<49>>
T_aaa_aa == <<97, 97, 97, 10, 97, 97>>

TestTexts ==
    {T_lorem_ipsum, T_lorem_punct, T_lorem_coucou, T_lorem_spaces,
     T_abc_spaced, T_a_b_c, T_emoji, T_four_lines, T_one, T_aaa_aa}

\* every text a file or a pipe may hold in the model
Texts == UNION {[1..n -> Alphabet] : n \in 0..MaxLen} \cup TestTexts

\* what a read can fail with
IoErrorKinds == {"NotFound", "PermissionDenied", "InvalidData"}

\* outcomes of a read to exhaustion: the whole text, or an io::Error
ReadResults ==
    {[ok |-> TRUE, text |-> t, kind |-> "none"] : t \in Texts}
    \cup {[ok |-> FALSE, text |-> <<>>, kind |-> k] : k \in IoErrorKinds}

UsageMessage == "No input provided. Use --file <path> or pipe data into stdin."

\* seconds the panel stays on screen
DwellSecs == 3

(***************************************************************************)
(* State.                                                                  *)
(***************************************************************************)
VARIABLES
    file,        \* the --file argument: "None" or "Some"
    stdin_tty,   \* atty::is(Stream::Stdin)
    mode,        \* presentation mode: "interactive" or "plain"
    pc,          \* where main() is
    input_text,  \* the chars the file or pipe held (what was read)
    content,     \* main's `content`: the String read_input returned
    report,      \* main's `report`: <<>> or <<Report>>
    raw,         \* terminal: raw mode enabled
    alt,         \* terminal: alternate screen active
    panel,       \* what is drawn on the alternate screen
    out,         \* lines written to standard output
    errout,      \* messages written to the error stream
    err,         \* the error travelling up to main: <<>> or <<error>>
    exit_status, \* <<>> while running, <<code>> once the process has ended
    log,         \* the calls made so far, each with its outcome
    term_hist,   \* the terminal states gone through
    elapsed      \* seconds slept

vars ==
    <<file, stdin_tty, mode, pc, input_text, content, report, raw, alt, panel,
      out, errout, err, exit_status, log, term_hist, elapsed>>

EmptyPanel == [title |-> "", lines |-> <<>>]

\* the state of the terminal device
TermState(r, a) ==
    IF r /\ a THEN "RawAlternate"
    ELSE IF r THEN "RawOnly"
    ELSE IF a THEN "AlternateOnly"
    ELSE "Normal"

\* the state when main() starts, whatever the presentation mode
InitCommon ==
    /\ file \in {"None", "Some"}
    /\ stdin_tty \in BOOLEAN
    /\ pc = "read_input"
    /\ input_text = <<>>
    /\ content = <<>>
    /\ report = <<>>
    /\ raw = FALSE
    /\ alt = FALSE
    /\ panel = EmptyPanel
    /\ out = <<>>
    /\ errout = <<>>
    /\ err = <<>>
    /\ exit_status = <<>>
    /\ log = <<>>
    /\ term_hist = <<"Normal">>
    /\ elapsed = 0

\* src/main.rs has the interactive panel only
Init == InitCommon /\ mode = "interactive"

\* a call is made and returns Ok, or Err of the given kind
Logged(op, ok, kind) ==
    log' = Append(log, [op |-> op, res |-> IF ok THEN "ok" ELSE kind])

\* `?` on an Err: the function returns it, and so does main
Fail(op, kind) ==
    /\ err' = <<[from |-> op, kind |-> kind]>>
    /\ pc' = "main_err"

\* the terminal device changes state
TermBecomes(r, a) ==
    /\ raw' = r
    /\ alt' = a
    /\ term_hist' = Append(term_hist, TermState(r, a))

(***************************************************************************)
(* read_input                                                              *)
(***************************************************************************)
\* faulty variant: the pipe is looked at before the --file argument
InputBranch_stdin_first ==
    IF ~stdin_tty THEN "stdin" ELSE IF file = "Some" THEN "file" ELSE "usage"

\* the branch read_input takes
InputBranch ==
    IF file = "Some" THEN "file" ELSE IF ~stdin_tty THEN "stdin" ELSE "usage"

\* faulty variant: fs::read_to_string(path).unwrap_or_default()
ReadFile_or_default ==
    /\ pc = "read_input"
    /\ InputBranch = "file"
    /\ \E r \in ReadResults :
        /\ Logged("fs::read_to_string", r.ok, r.kind)
        /\ input_text' = r.text
        /\ content' = Utf8(r.text)
        /\ pc' = "analyze"
        /\ UNCHANGED err
    /\ UNCHANGED <<file, stdin_tty, mode, report, raw, alt, panel, out, errout,
                   exit_status, term_hist, elapsed>>

\* case 1: read the specified file
ReadFile ==
    /\ pc = "read_input"
    /\ InputBranch = "file"
    /\ \E r \in ReadResults :
        /\ Logged("fs::read_to_string", r.ok, r.kind)
        /\ IF r.ok
           THEN /\ input_text' = r.text
                /\ content' = Utf8(r.text)
                /\ pc' = "analyze"
                /\ UNCHANGED err
           ELSE /\ Fail("fs::read_to_string", r.kind)
                /\ UNCHANGED <<input_text, content>>
    /\ UNCHANGED <<file, stdin_tty, mode, report, raw, alt, panel, out, errout,
                   exit_status, term_hist, elapsed>>

\* case 2: stdin is not a terminal, read the pipe
ReadStdin ==
    /\ pc = "read_input"
    /\ InputBranch = "stdin"
    /\ \E r \in ReadResults :
        /\ Logged("stdin.read_to_string", r.ok, r.kind)
        /\ IF r.ok
           THEN /\ input_text' = r.text
                /\ content' = Utf8(r.text)
                /\ pc' = "analyze"
                /\ UNCHANGED err
           ELSE /\ Fail("stdin.read_to_string", r.kind)
                /\ UNCHANGED <<input_text, content>>
    /\ UNCHANGED <<file, stdin_tty, mode, report, raw, alt, panel, out, errout,
                   exit_status, term_hist, elapsed>>

\* case 3: stdin is an interactive terminal and no file is specified
UsageExit ==
    /\ pc = "read_input"
    /\ InputBranch = "usage"
    /\ Logged("usage", TRUE, "Other")
    /\ errout' = Append(errout, [msg |-> UsageMessage, err |-> <<>>])
    /\ exit_status' = <<1>>
    /\ pc' = "exited"
    /\ UNCHANGED <<file, stdin_tty, mode, input_text, content, report, raw, alt,
                   panel, out, err, term_hist, elapsed>>

(***************************************************************************)
(* main: analyze, then print_report                                        *)
(***************************************************************************)
Analyze ==
    /\ pc = "analyze"
    /\ LET r == analyze(content) IN
        /\ Logged("analyze", r.ok, "Other")
        /\ IF r.ok
           THEN /\ report' = <<r.report>>
                /\ pc' = "print_report"
                /\ UNCHANGED err
           ELSE /\ Fail("analyze", "Other")
                /\ UNCHANGED report
    /\ UNCHANGED <<file, stdin_tty, mode, input_text, content, raw, alt, panel,
                   out, errout, exit_status, term_hist, elapsed>>

\* faulty variant: the kind of input selects the presentation
PresentationEntry_by_input ==
    IF file = "None" THEN "print_plain" ELSE "enable_raw_mode"

\* the presentation the configuration selects
PresentationEntry == IF mode = "plain" THEN "print_plain" ELSE "enable_raw_mode"

\* main calls print_report(report): the Report moves into it
PrintReport ==
    /\ pc = "print_report"
    /\ Logged("print_report", TRUE, "Other")
    /\ pc' = PresentationEntry
    /\ UNCHANGED <<file, stdin_tty, mode, input_text, content, report, raw, alt,
                   panel, out, errout, err, exit_status, term_hist, elapsed>>

(***************************************************************************)
(* print_report, interactive panel: init_terminal, draw, sleep,            *)
(* restore_terminal                                                        *)
(***************************************************************************)
\* init_terminal: enable_raw_mode()?
EnableRawMode ==
    /\ pc = "enable_raw_mode"
    /\ \E ok \in BOOLEAN :
        /\ Logged("enable_raw_mode", ok, "Other")
        /\ IF ok
           THEN /\ TermBecomes(TRUE, alt)
                /\ pc' = "enter_alternate_screen"
                /\ UNCHANGED err
           ELSE /\ Fail("enable_raw_mode", "Other")
                /\ UNCHANGED <<raw, alt, term_hist>>
    /\ UNCHANGED <<file, stdin_tty, mode, input_text, content, report, panel,
                   out, errout, exit_status, elapsed>>

\* init_terminal: execute!(stdout, EnterAlternateScreen)?
EnterAlternateScreen ==
    /\ pc = "enter_alternate_screen"
    /\ \E ok \in BOOLEAN :
        /\ Logged("EnterAlternateScreen", ok, "Other")
        /\ IF ok
           THEN /\ TermBecomes(raw, TRUE)
                /\ pc' = "terminal_new"
                /\ UNCHANGED err
           ELSE /\ Fail("EnterAlternateScreen", "Other")
                /\ UNCHANGED <<raw, alt, term_hist>>
    /\ UNCHANGED <<file, stdin_tty, mode, input_text, content, report, panel,
                   out, errout, exit_status, elapsed>>

\* init_terminal: Ok(Terminal::new(backend)?)
TerminalNew ==
    /\ pc = "terminal_new"
    /\ \E ok \in BOOLEAN :
        /\ Logged("Terminal::new", ok, "Other")
        /\ IF ok
           THEN pc' = "draw" /\ UNCHANGED err
           ELSE Fail("Terminal::new", "Other")
    /\ UNCHANGED <<file, stdin_tty, mode, input_text, content, report, raw, alt,
                   panel, out, errout, exit_status, term_hist, elapsed>>

\* the block titled "Report" and the paragraph of three lines
PanelOf(r) ==
    [title |-> "Report",
     lines |-> <<[label |-> "Chars: ", value |-> Digits(r.char_count)],
                 [label |-> "Words: ", value |-> Digits(r.word_count)],
                 [label |-> "Lines: ", value |-> Digits(r.line_count)]>>]

\* faulty variant: restore_terminal right after the draw, without the sleep
Draw_no_dwell ==
    /\ pc = "draw"
    /\ \E ok \in BOOLEAN :
        /\ Logged("draw", ok, "Other")
        /\ IF ok
           THEN /\ panel' = PanelOf(report[1])
                /\ pc' = "disable_raw_mode"
                /\ UNCHANGED err
           ELSE /\ panel' \in {panel, PanelOf(report[1])}
                /\ Fail("draw", "Other")
    /\ UNCHANGED <<file, stdin_tty, mode, input_text, content, report, raw, alt,
                   out, errout, exit_status, term_hist, elapsed>>

\* terminal.draw(|f| { .. })?  A failing draw may have flushed the frame or not.
Draw ==
    /\ pc = "draw"
    /\ \E ok \in BOOLEAN :
        /\ Logged("draw", ok, "Other")
        /\ IF ok
           THEN /\ panel' = PanelOf(report[1])
                /\ pc' = "sleep"
                /\ UNCHANGED err
           ELSE /\ panel' \in {panel, PanelOf(report[1])}
                /\ Fail("draw", "Other")
    /\ UNCHANGED <<file, stdin_tty, mode, input_text, content, report, raw, alt,
                   out, errout, exit_status, term_hist, elapsed>>

\* std::thread::sleep(Duration::from_secs(3))
Sleep ==
    /\ pc = "sleep"
    /\ Logged("sleep", TRUE, "Other")
    /\ elapsed' = elapsed + DwellSecs
    /\ pc' = "disable_raw_mode"
    /\ UNCHANGED <<file, stdin_tty, mode, input_text, content, report, raw, alt,
                   panel, out, errout, err, exit_status, term_hist>>

\* restore_terminal: disable_raw_mode()?
DisableRawMode ==
    /\ pc = "disable_raw_mode"
    /\ \E ok \in BOOLEAN :
        /\ Logged("disable_raw_mode", ok, "Other")
        /\ IF ok
           THEN /\ TermBecomes(FALSE, alt)
                /\ pc' = "leave_alternate_screen"
                /\ UNCHANGED err
           ELSE /\ Fail("disable_raw_mode", "Other")
                /\ UNCHANGED <<raw, alt, term_hist>>
    /\ UNCHANGED <<file, stdin_tty, mode, input_text, content, report, panel,
                   out, errout, exit_status, elapsed>>

\* restore_terminal: execute!(stdout, LeaveAlternateScreen)?  Leaving the
\* alternate screen brings the previous screen contents back.
LeaveAlternateScreen ==
    /\ pc = "leave_alternate_screen"
    /\ \E ok \in BOOLEAN :
        /\ Logged("LeaveAlternateScreen", ok, "Other")
        /\ IF ok
           THEN /\ TermBecomes(raw, FALSE)
                /\ pc' = "main_ok"
                /\ UNCHANGED err
           ELSE /\ Fail("LeaveAlternateScreen", "Other")
                /\ UNCHANGED <<raw, alt, term_hist>>
    /\ UNCHANGED <<file, stdin_tty, mode, input_text, content, report, panel,
                   out, errout, exit_status, elapsed>>

(***************************************************************************)
(* main returns                                                            *)
(***************************************************************************)
\* Ok(()) ends the process with status 0; Err(e) prints "Error: {e:?}" to
\* the error stream and ends it with status 1
MainReturn ==
    /\ pc \in {"main_ok", "main_err"}
    /\ IF pc = "main_ok"
       THEN /\ exit_status' = <<0>>
            /\ UNCHANGED errout
       ELSE /\ exit_status' = <<1>>
            /\ errout' = Append(errout, [msg |-> "Error: ", err |-> err])
    /\ pc' = "exited"
    /\ UNCHANGED <<file, stdin_tty, mode, input_text, content, report, raw, alt,
                   panel, out, err, log, term_hist, elapsed>>

Next ==
    \/ ReadFile
    \/ ReadStdin
    \/ UsageExit
    \/ Analyze
    \/ PrintReport
    \/ EnableRawMode
    \/ EnterAlternateScreen
    \/ TerminalNew
    \/ Draw
    \/ Sleep
    \/ DisableRawMode
    \/ LeaveAlternateScreen
    \/ MainReturn

Spec == Init /\ [][Next]_vars

(***************************************************************************)
(* Plain mode.  src/main.rs holds no plain presentation; this part follows *)
(* the specification's sections 4.4 and 6.                                 *)
(***************************************************************************)
Modes == {"interactive", "plain"}

\* the one line of plain mode: char, word, line
PlainLine(r) ==
    [fmt |-> "char count : {}, word_count: {}, line_count: {}",
     values |-> <<Digits(r.char_count), Digits(r.word_count), Digits(r.line_count)>>]

\* plain mode: one line to standard output, then return normally
PrintPlain ==
    /\ pc = "print_plain"
    /\ Logged("println", TRUE, "Other")
    /\ out' = Append(out, PlainLine(report[1]))
    /\ pc' = "main_ok"
    /\ UNCHANGED <<file, stdin_tty, mode, input_text, content, report, raw, alt,
                   panel, errout, err, exit_status, term_hist, elapsed>>

ConfigInit == InitCommon /\ mode \in Modes

ConfigNext == Next \/ PrintPlain

\* the program with its presentation mode set by configuration
ConfigSpec == ConfigInit /\ [][ConfigNext]_vars

(***************************************************************************)
(* Vocabulary of the properties.                                           *)
(***************************************************************************)
\* the calls of op made so far
Calls(op) == {i \in 1..Len(log) : log[i].op = op}

\* the calls of op that returned Ok
OkCalls(op) == {i \in Calls(op) : log[i].res = "ok"}

\* the calls of op that returned Err
ErrCalls(op) == {i \in Calls(op) : log[i].res # "ok"}

FileReads == Cardinality(Calls("fs::read_to_string"))

StdinReads == Cardinality(Calls("stdin.read_to_string"))

\* analyze has just returned its Report to main
Analyzed == pc = "print_report" /\ report # <<>>

\* main() has returned or the process has ended
Terminated == pc = "exited"

\* print_report has returned to main
PrintReportReturned ==
    Calls("print_report") # {} /\ pc \in {"main_ok", "main_err", "exited"}

\* the terminal has been in the RawAlternate state
EnteredRawAlternate == \E i \in 1..Len(term_hist) : term_hist[i] = "RawAlternate"

\* init_terminal has returned Ok: print_report holds the terminal
InitTerminalReturned == OkCalls("Terminal::new") # {}

\* restore_terminal has been called (its first statement has run)
RestoreRan == Calls("disable_raw_mode") # {}

\* the Report has been shown: the panel was drawn or the plain line written
Presented == OkCalls("draw") # {} \/ out # <<>>

RECURSIVE FromDigits(_)
\* the number a decimal numeral reads as
FromDigits(ds) ==
    IF ds = <<>> THEN 0
    ELSE 10 * FromDigits(SubSeq(ds, 1, Len(ds) - 1)) + ds[Len(ds)]

\* the ops of the log, in order
LogOps == [i \in 1..Len(log) |-> log[i].op]

\* t with char c put in after its first i chars
InsertAt(t, i, c) == SubSeq(t, 1, i) \o <<c>> \o SubSeq(t, i + 1, Len(t))

\* the line terminators of t: each "\n", alone or closing a "\r\n"
Terminators(t) == {i \in 1..Len(t) : t[i] = LF}

\* the starts of the maximal runs of non-whitespace chars of t
RunStarts(t) ==
    {i \in 1..Len(t) : ~IsWhitespace(t[i]) /\ (i = 1 \/ IsWhitespace(t[i - 1]))}

(***************************************************************************)
(* Properties.                                                             *)
(***************************************************************************)

\* C1: once the terminal has been in RawAlternate, print_report never
\* returns, on any path (a failing draw included), without restore_terminal
\* having run.
C1_RestoreOnEveryExit ==
    (PrintReportReturned /\ EnteredRawAlternate /\ InitTerminalReturned)
        => RestoreRan

\* C2: when the process has ended, whatever the outcome, raw mode is
\* disabled and the alternate screen is not active.
C2_TerminalNeverLeaks == Terminated => (~raw /\ ~alt)

\* C3: read_input takes exactly one branch, by strict priority: the file if
\* one is given (stdin is then never read, piped or not), else piped stdin,
\* else the usage message on the error stream and status 1 with no Report
\* and the terminal untouched; at most one read is made per run.
C3_InputPriority ==
    /\ FileReads + StdinReads + Cardinality(Calls("usage")) <= 1
    /\ pc # "read_input" =>
          FileReads + StdinReads + Cardinality(Calls("usage")) = 1
    /\ file = "Some" => (StdinReads = 0 /\ Calls("usage") = {})
    /\ (file = "None" /\ ~stdin_tty) => (FileReads = 0 /\ Calls("usage") = {})
    /\ (file = "None" /\ stdin_tty) =>
          /\ FileReads = 0 /\ StdinReads = 0
          /\ report = <<>> /\ out = <<>> /\ panel = EmptyPanel
          /\ term_hist = <<"Normal">>
          /\ pc # "read_input" =>
                /\ pc = "exited"
                /\ exit_status = <<1>>
                /\ errout = <<[msg |-> UsageMessage, err |-> <<>>]>>
                /\ LogOps = <<"usage">>

\* C3 happens: a file is given while stdin is piped, and the run ends well
\* having read the file
C3_Witness ==
    /\ file = "Some" /\ ~stdin_tty
    /\ pc = "exited" /\ exit_status = <<0>>
    /\ FileReads = 1

\* C4: a failed read of the file or of the pipe reaches main unchanged and
\* is not recovered: the process ends with a non-zero status, analyze is
\* never called, no Report is printed or drawn, the terminal stays Normal.
C4_ReadErrorPropagates ==
    \A op \in {"fs::read_to_string", "stdin.read_to_string"} :
        ErrCalls(op) # {} =>
            /\ log = <<[op |-> op, res |-> log[1].res]>>
            /\ log[1].res \in IoErrorKinds
            /\ err = <<[from |-> op, kind |-> log[1].res]>>
            /\ pc \in {"main_err", "exited"}
            /\ pc = "exited" =>
                  /\ exit_status # <<0>> /\ exit_status # <<>>
                  /\ errout = <<[msg |-> "Error: ", err |-> err]>>
            /\ report = <<>> /\ out = <<>> /\ panel = EmptyPanel
            /\ ~raw /\ ~alt /\ term_hist = <<"Normal">>

\* C4 happens: the file is not found and the process has ended
C4_Witness ==
    /\ pc = "exited"
    /\ log = <<[op |-> "fs::read_to_string", res |-> "NotFound"]>>

\* C5: the line count is 0 for the empty text, the number of terminators
\* for a text ending in one, and that number plus 1 for any other text; the
\* texts of test_count_lines give 0, 1 and 4.
C5_CountLines ==
    Analyzed =>
        LET t == input_text
            n == report[1].line_count
        IN  /\ n = IF t = <<>> THEN 0
                   ELSE IF t[Len(t)] = LF THEN Cardinality(Terminators(t))
                   ELSE Cardinality(Terminators(t)) + 1
            /\ t = T_one => n = 1
            /\ t = T_four_lines => n = 4

\* C5 happens: a text ending in its second terminator has been analyzed
C5_Witness ==
    /\ Analyzed
    /\ input_text = <<LETTER_A, LF, LF>>
    /\ report[1].line_count = 2

\* C6: the word count is the number of maximal runs of non-whitespace
\* chars: 0 for an empty or all-whitespace text, unchanged by whitespace
\* added in front, at the end or inside a whitespace run, and unchanged by
\* punctuation attached to a token.
C6_CountWords ==
    Analyzed =>
        LET t == input_text
            n == report[1].word_count
        IN  /\ n = Cardinality(RunStarts(t))
            /\ (\A i \in 1..Len(t) : IsWhitespace(t[i])) => n = 0
            /\ \A c \in {SP, TAB, LF} :
                  /\ count_words(Utf8(InsertAt(t, 0, c))) = n
                  /\ count_words(Utf8(InsertAt(t, Len(t), c))) = n
                  /\ \A i \in 1..Len(t) :
                        IsWhitespace(t[i]) =>
                            count_words(Utf8(InsertAt(t, i, c))) = n
            /\ \A i \in 1..Len(t) :
                  ~IsWhitespace(t[i]) =>
                      /\ count_words(Utf8(InsertAt(t, i, DOT))) = n
                      /\ count_words(Utf8(InsertAt(t, i - 1, DOT))) = n
            /\ t = T_lorem_ipsum => n = 2
            /\ t = T_lorem_punct => n = 2
            /\ t = T_lorem_coucou => n = 3
            /\ t = T_lorem_spaces => n = 2

\* C6 happens: "lorem   ipsum   " has been analyzed and has 2 words
C6_Witness ==
    /\ Analyzed
    /\ input_text = T_lorem_spaces
    /\ report[1].word_count = 2

\* C7: analyze never fails, and its Report holds the number of chars (not
\* bytes) of the text, count_words of it and count_lines of it; a second
\* call on the same text gives an equal Report; "aaa\naa" gives {6, 2, 2}.
C7_Analyze ==
    /\ ErrCalls("analyze") = {}
    /\ pc \notin {"read_input", "analyze", "main_err", "exited"} => report # <<>>
    /\ report # <<>> => OkCalls("analyze") # {}
    /\ Analyzed =>
          /\ report[1].char_count = Len(input_text)
          /\ report[1].word_count = count_words(content)
          /\ report[1].line_count = count_lines(content)
          /\ analyze(content) = [ok |-> TRUE, report |-> report[1]]
          /\ input_text = T_aaa_aa =>
                report[1] = [char_count |-> 6, word_count |-> 2, line_count |-> 2]
          /\ input_text = T_emoji => report[1].char_count = 1
          /\ input_text = T_abc_spaced => report[1].char_count = 5

\* C7 happens: "aaa\naa" has been analyzed
C7_Witness ==
    /\ Analyzed
    /\ input_text = T_aaa_aa
    /\ report = <<[char_count |-> 6, word_count |-> 2, line_count |-> 2]>>

\* C8: a run ends either with the Report presented and status 0, or with an
\* error message, a non-zero status and the Report not presented.
C8_AllOrNothing ==
    Terminated =>
        \/ exit_status = <<0>> /\ Presented /\ errout = <<>>
        \/ exit_status # <<0>> /\ errout # <<>> /\ ~Presented

\* C9: in plain mode, whatever the input, the run writes exactly one line
\* with the counts in the order char, word, line, returns normally and
\* leaves the terminal Normal throughout; the panel mode writes no line; no
\* run does both.
C9_PlainMode ==
    /\ mode = "plain" =>
          /\ ~raw /\ ~alt /\ term_hist = <<"Normal">> /\ panel = EmptyPanel
          /\ Calls("enable_raw_mode") = {} /\ Calls("draw") = {}
          /\ Len(out) <= 1
          /\ (Calls("print_report") # {} /\ pc # "print_plain") =>
                /\ Len(out) = 1
                /\ out[1].values =
                      <<Digits(Len(input_text)), Digits(report[1].word_count),
                        Digits(report[1].line_count)>>
                /\ pc \in {"main_ok", "exited"}
                /\ pc = "exited" => exit_status = <<0>> /\ errout = <<>>
    /\ mode = "interactive" =>
          /\ out = <<>>
          /\ Calls("print_report") # {} =>
                (Calls("enable_raw_mode") # {} \/ pc = "enable_raw_mode")
    /\ ~(out # <<>> /\ Calls("draw") # {})

\* C9 happens: a plain run on piped input has ended with its line written
C9_Witness ==
    /\ mode = "plain" /\ file = "None"
    /\ pc = "exited" /\ exit_status = <<0>>
    /\ Len(out) = 1

\* C10: a successful interactive run is, once each and in this order: the
\* read, analyze, raw mode on, alternate screen entered, the panel drawn
\* with the Report's values, one dwell, raw mode off, alternate screen
\* left, exit 0.  The draw and the dwell happen in RawAlternate only, and
\* the terminal goes Normal, RawAlternate, Normal.
C10_InteractiveOrder ==
    /\ pc \in {"draw", "sleep"} => (raw /\ alt)
    /\ (Calls("draw") # {} \/ Calls("sleep") # {}) => EnteredRawAlternate
    /\ (Terminated /\ exit_status = <<0>>) =>
          /\ \E rd \in {"fs::read_to_string", "stdin.read_to_string"} :
                LogOps = <<rd, "analyze", "print_report", "enable_raw_mode",
                           "EnterAlternateScreen", "Terminal::new", "draw",
                           "sleep", "disable_raw_mode", "LeaveAlternateScreen">>
          /\ \A i \in 1..Len(log) : log[i].res = "ok"
          /\ panel.title = "Report"
          /\ [k \in 1..Len(panel.lines) |-> panel.lines[k].label]
                = <<"Chars: ", "Words: ", "Lines: ">>
          /\ [k \in 1..Len(panel.lines) |-> FromDigits(panel.lines[k].value)]
                = <<Len(input_text), report[1].word_count, report[1].line_count>>
          /\ elapsed = DwellSecs
          /\ SelectSeq(term_hist, LAMBDA st : st \in {"Normal", "RawAlternate"})
                = <<"Normal", "RawAlternate", "Normal">>
          /\ ~raw /\ ~alt

\* C10 happens: an interactive run on "lorem ipsu\n coucou" has ended with
\* status 0
C10_Witness ==
    /\ Terminated /\ exit_status = <<0>>
    /\ input_text = T_lorem_coucou
    /\ OkCalls("draw") # {}

=============================================================================
